---- MODULE Spec2Model ----
(***************************************************************************)
(* Model of extract_sm30.py: the PDHS container parser (parse_pdhs), the   *)
(* sub-blob framer (iter_sep_blobs), the shader reconstructor              *)
(* (reconstruct_shader), the validator (validate_shader) and the driver    *)
(* main().  Byte buffers are sequences of integers 0..255; a Python offset *)
(* k is the sequence index k+1.                                            *)
(***************************************************************************)
EXTENDS Integers, Sequences, FiniteSets, TLC

VARIABLES
    blob,       \* reconstruct_shader's argument
    shader,     \* what reconstruct_shader returned
    vdata,      \* validate_shader's argument
    verdict,    \* what validate_shader returned and printed
    rpc,        \* position of the reconstructor/validator run
    fblob,      \* iter_sep_blobs' argument
    p,          \* iter_sep_blobs' cursor
    cur,        \* the frame iter_sep_blobs is suspended on
    fpc,        \* position of the generator: loop, yielded, resume, done, raised
    tested,     \* the cursor of the last separator test of line 41, -1 before any
    yielded,    \* every frame yielded so far, in order
    data,       \* main: the bytes read from INPUT
    entries,    \* main: what parse_pdhs returned
    ei,         \* main: how many entries the outer loop has taken
    mpc,        \* main: start, entries, frames, done, raised
    raised,     \* main: the exception that ended the run, "none" while running
    ps_idx,     \* main: per-entry pixel-shader index
    vs_idx,     \* main: per-entry vertex-shader index
    has_shaders,
    total_ps,
    total_vs,
    total_skip,
    writes      \* main: every open(fpath, "wb") so far, with what was written

rvars == <<blob, shader, vdata, verdict, rpc>>
fvars == <<fblob, p, cur, fpc, tested, yielded>>
mvars == <<data, entries, ei, mpc, raised, ps_idx, vs_idx, has_shaders,
           total_ps, total_vs, total_skip, writes>>

vars == <<rvars, fvars, mvars>>

(***************************************************************************)
(* Python's bytes operations.                                              *)
(***************************************************************************)
Min(a, b) == IF a < b THEN a ELSE b
Max(a, b) == IF a > b THEN a ELSE b

\* b[i:j] for 0 <= i, 0 <= j: clamped to the buffer, empty when i >= j.
Slice(b, i, j) ==
    LET hi == Min(j, Len(b))
    IN  IF i >= hi THEN <<>> ELSE SubSeq(b, i + 1, hi)

\* b[i:], where a negative i counts from the end.
SliceFrom(b, i) ==
    LET lo == IF i < 0 THEN Max(Len(b) + i, 0) ELSE i
    IN  Slice(b, lo, Len(b))

\* struct.unpack_from needs n bytes at offset off, else it raises struct.error.
CanUnpack(b, off, n) == off >= 0 /\ off + n <= Len(b)

\* struct.unpack_from("<H", b, off)[0]
U16(b, off) == b[off + 1] + 256 * b[off + 2]

\* struct.unpack_from("<I", b, off)[0]
U32(b, off) ==
    b[off + 1] + 256 * b[off + 2] + 65536 * b[off + 3] + 16777216 * b[off + 4]

\* b.find(pat, start): the lowest offset >= start where pat occurs, else -1.
Find(b, pat, start) ==
    LET hits == {i \in start..(Len(b) - Len(pat)) : Slice(b, i, i + Len(pat)) = pat}
    IN  IF hits = {} THEN -1 ELSE CHOOSE i \in hits : \A k \in hits : i <= k

(***************************************************************************)
(* Module constants, lines 3-7.                                            *)
(***************************************************************************)
PDHS_MAGIC == <<80, 68, 72, 83>>
PS_MAGIC   == <<0, 3, 255, 255>>
VS_MAGIC   == <<0, 3, 254, 255>>
SEP        == <<255, 255, 255, 255>>
END_TOKEN  == <<255, 255, 0, 0>>

\* Python's None and a raised AssertionError: values no bytes object equals.
None           == <<-1>>
AssertionError == <<-2>>

(***************************************************************************)
(* reconstruct_shader, lines 53-104.                                       *)
(***************************************************************************)
\* Line 100 with the closing end token left out.
Reassemble_NoEnd(header, tail, main) == header \o tail \o main

\* Line 100: header + tail + main + END_TOKEN.
Reassemble(header, tail, main) == header \o tail \o main \o END_TOKEN

\* Lines 70-75 without the magic test of line 74.
Declines_LenOnly(b) == Len(b) < 8

\* Lines 70-75: the two early returns of None.
Declines(b) == Len(b) < 8 \/ Slice(b, 0, 4) \notin {PS_MAGIC, VS_MAGIC}

\* Lines 78-79 ignoring the comment length.
HeaderEnd_NoComment(b) == 4 + 4

\* Lines 78-79.
HeaderEnd(b) == 4 + 4 + U16(b, 6) * 4

reconstruct_shader(b) ==
    IF Declines(b) THEN None
    ELSE LET header_end == HeaderEnd(b)
         IN  IF header_end >= Len(b) THEN b
             ELSE LET split_off == Find(b, END_TOKEN, header_end)
                  IN  IF split_off = -1 THEN b
                      ELSE LET tail   == SliceFrom(b, split_off + 4)
                               main   == Slice(b, header_end, split_off)
                               header == Slice(b, 0, header_end)
                               reconstructed == Reassemble(header, tail, main)
                           IN  IF tail = <<>> THEN b
                               ELSE IF Len(reconstructed) # Len(b)
                                    THEN AssertionError
                                    ELSE reconstructed

(***************************************************************************)
(* validate_shader, lines 107-118: the verdict and the lines it prints.    *)
(***************************************************************************)
\* Line 112 accepting the pixel-shader magic only.
KnownMagic_PSOnly(m) == m = PS_MAGIC

\* Line 112.
KnownMagic(m) == m \in {PS_MAGIC, VS_MAGIC}

validate_shader(d) ==
    IF Len(d) < 8 THEN [ok |-> FALSE, printed |-> <<"too short">>]
    ELSE IF ~KnownMagic(Slice(d, 0, 4))
         THEN [ok |-> FALSE, printed |-> <<"bad magic">>]
    ELSE IF SliceFrom(d, -4) # END_TOKEN
         THEN [ok |-> FALSE, printed |-> <<"does not end with FFFF0000">>]
    ELSE [ok |-> TRUE, printed |-> <<>>]

(***************************************************************************)
(* Inputs of the reconstructor and the validator.                          *)
(***************************************************************************)
MaxBody == 9

BodyBytes == {0, 255, 77}

SeqsUpTo(S, n) == UNION {[1..k -> S] : k \in 0..n}

\* A magic that is neither shader magic.
OtherMagic == <<0, 3, 253, 255>>

\* The 8 leading bytes: magic, 2 unused bytes, comment length N (u16 LE).
ReconHead(m, n) == m \o <<254, 255>> \o <<n, 0>>

ShaderHeads == {ReconHead(m, n) : m \in {PS_MAGIC, VS_MAGIC}, n \in 0..1}

OtherHeads == {ReconHead(OtherMagic, n) : n \in 0..1}

ReconInputs ==
    {h \o body : h \in ShaderHeads, body \in SeqsUpTo(BodyBytes, MaxBody)}
    \cup {h \o body : h \in OtherHeads, body \in SeqsUpTo(BodyBytes, 2)}
    \cup {SubSeq(h, 1, k) : h \in ShaderHeads \cup OtherHeads, k \in 0..7}

NoVerdict == [ok |-> FALSE, printed |-> <<"not run">>]

\* The framer's variables while the framer is not run.
FIdle ==
    /\ fblob = <<>>
    /\ p = 0
    /\ cur = <<>>
    /\ fpc = "idle"
    /\ tested = -1
    /\ yielded = <<>>

\* main's variables while main is not run.
MIdle ==
    /\ data = <<>>
    /\ entries = <<>>
    /\ ei = 0
    /\ mpc = "idle"
    /\ raised = "none"
    /\ ps_idx = 0
    /\ vs_idx = 0
    /\ has_shaders = FALSE
    /\ total_ps = 0
    /\ total_vs = 0
    /\ total_skip = 0
    /\ writes = <<>>

RInit ==
    /\ FIdle
    /\ MIdle
    /\ blob \in ReconInputs
    /\ shader = <<>>
    /\ vdata = <<>>
    /\ verdict = NoVerdict
    /\ rpc = "start"

\* shader = reconstruct_shader(sub)
Reconstruct ==
    /\ rpc = "start"
    /\ shader' = reconstruct_shader(blob)
    /\ rpc' = "reconstructed"
    /\ UNCHANGED <<blob, vdata, verdict, fvars, mvars>>

\* valid = validate_shader(shader, fname)
ValidateShader ==
    /\ rpc = "reconstructed"
    /\ shader \notin {None, AssertionError}
    /\ vdata' = shader
    /\ verdict' = validate_shader(shader)
    /\ rpc' = "validated"
    /\ UNCHANGED <<blob, shader, fvars, mvars>>

\* validate_shader called on a buffer that was not reconstructed
ValidateBlob ==
    /\ rpc = "start"
    /\ vdata' = blob
    /\ verdict' = validate_shader(blob)
    /\ rpc' = "validated"
    /\ UNCHANGED <<blob, shader, fvars, mvars>>

RNext == Reconstruct \/ ValidateShader \/ ValidateBlob

SpecRecon == RInit /\ [][RNext]_vars

(***************************************************************************)
(* iter_sep_blobs, lines 37-50, one action per step of the generator.      *)
(***************************************************************************)
\* Line 40 with the bound of the loop off by one header field.
LoopCond_Short(b, q) == q < Len(b) - 12

\* Line 40: while p < len(blob) - 16.
LoopCond(b, q) == q < Len(b) - 16

\* Line 41: blob[p:p + 4] == SEP.
IsSep(b, q) == Slice(b, q, q + 4) = SEP

\* Line 46 forgetting the payload: the cursor stops at the payload's start.
FrameEnd_Start(start, blob_size) == start

\* Line 46: end = start + blob_size.
FrameEnd(start, blob_size) == start + blob_size

\* Lines 42-47: the frame at cursor q, as yielded.
Frame(b, q) ==
    LET kind      == U32(b, q + 4)
        blob_size == U32(b, q + 12)
        start     == q + 16
        end       == FrameEnd(start, blob_size)
    IN  [off |-> q, kind |-> kind, sub |-> Slice(b, start, end), end |-> end]

\* The reconstructor's variables while the reconstructor is not run.
RIdle ==
    /\ blob = <<>>
    /\ shader = <<>>
    /\ vdata = <<>>
    /\ verdict = NoVerdict
    /\ rpc = "idle"

\* Line 40, condition false: the generator is exhausted.
FrameExit ==
    /\ fpc = "loop"
    /\ ~LoopCond(fblob, p)
    /\ fpc' = "done"
    /\ UNCHANGED <<fblob, p, cur, tested, yielded>>

\* Lines 41, 49-50: no separator at the cursor, advance one byte.
FrameSkip ==
    /\ fpc = "loop"
    /\ LoopCond(fblob, p)
    /\ ~IsSep(fblob, p)
    /\ tested' = p
    /\ p' = p + 1
    /\ UNCHANGED <<fblob, cur, fpc, yielded>>

\* Lines 41-47: a separator at the cursor; read the header and yield, or
\* raise struct.error when a header field lies beyond the buffer.
FrameYield ==
    /\ fpc = "loop"
    /\ LoopCond(fblob, p)
    /\ IsSep(fblob, p)
    /\ tested' = p
    /\ IF CanUnpack(fblob, p + 4, 4) /\ CanUnpack(fblob, p + 12, 4)
       THEN /\ cur' = Frame(fblob, p)
            /\ yielded' = Append(yielded, Frame(fblob, p))
            /\ fpc' = "yielded"
       ELSE /\ fpc' = "raised"
            /\ UNCHANGED <<cur, yielded>>
    /\ UNCHANGED <<fblob, p>>

\* Line 48: the consumer asked for the next frame; p = end.
FrameResume ==
    /\ fpc = "resume"
    /\ p' = cur.end
    /\ fpc' = "loop"
    /\ UNCHANGED <<fblob, cur, tested, yielded>>

(***************************************************************************)
(* The framer alone: a consumer that takes every frame and asks for more.  *)
(***************************************************************************)
MaxChunks == 4

\* A frame header: separator, kind, reserved, payload length (4 bytes LE).
Hdr(kind, lenbytes) == SEP \o <<kind, 0, 0, 0>> \o <<0, 0, 0, 0>> \o lenbytes

\* Headers declaring 0, 4 and 16777216 payload bytes, a bare separator and
\* single bytes.
Chunks ==
    { Hdr(1, <<0, 0, 0, 0>>), Hdr(2, <<4, 0, 0, 0>>), Hdr(1, <<0, 0, 0, 1>>),
      SEP, <<0>>, <<255>> }

RECURSIVE Flatten(_)
Flatten(cs) == IF cs = <<>> THEN <<>> ELSE Head(cs) \o Flatten(Tail(cs))

\* The model's integers are 32-bit signed: a buffer fits when no kind or length
\* field behind a separator has its top bit set.
FitsModel(b) ==
    \A q \in 0..(Len(b) - 16) : IsSep(b, q) => (b[q + 8] < 128 /\ b[q + 16] < 128)

FramerInputs ==
    {b \in {Flatten(cs) : cs \in SeqsUpTo(Chunks, MaxChunks)} : FitsModel(b)}

FInit ==
    /\ RIdle
    /\ MIdle
    /\ fblob \in FramerInputs
    /\ p = 0
    /\ cur = <<>>
    /\ fpc = "loop"
    /\ tested = -1
    /\ yielded = <<>>

\* for kind, sub in iter_sep_blobs(blob): the body took the frame.
Consume ==
    /\ fpc = "yielded"
    /\ fpc' = "resume"
    /\ UNCHANGED <<fblob, p, cur, tested, yielded>>

FNext ==
    \/ (FrameExit /\ UNCHANGED <<rvars, mvars>>)
    \/ (FrameSkip /\ UNCHANGED <<rvars, mvars>>)
    \/ (FrameYield /\ UNCHANGED <<rvars, mvars>>)
    \/ (FrameResume /\ UNCHANGED <<rvars, mvars>>)
    \/ (Consume /\ UNCHANGED <<rvars, mvars>>)

\* The generator and its consumer are one sequential loop: a step that can be
\* taken is taken.
SpecFramer == FInit /\ [][FNext]_vars /\ WF_vars(FNext)

(***************************************************************************)
(* parse_pdhs, lines 13-34.  The result is the exception raised ("none"    *)
(* for a normal return) and the entries returned.                          *)
(***************************************************************************)
\* bytes.decode("ascii", errors="replace"): code points, U+FFFD for a byte
\* that is not ASCII.
Decode(b) == [i \in 1..Len(b) |-> IF b[i] < 128 THEN b[i] ELSE 65533]

\* Line 22: while pos < len(data) - 6.
ParseCond(d, pos) == pos < Len(d) - 6

RECURSIVE ParseLoop(_, _, _)
ParseLoop(d, pos, acc) ==
    IF ~ParseCond(d, pos) THEN [raised |-> "none", entries |-> acc]
    ELSE IF ~CanUnpack(d, pos, 2) THEN [raised |-> "struct.error", entries |-> <<>>]
    ELSE LET name_len == U16(d, pos)
         IN  IF name_len = 0 \/ name_len > 128
             THEN [raised |-> "none", entries |-> acc]
             ELSE LET name   == Decode(Slice(d, pos + 2, pos + 2 + name_len))
                      sizeat == pos + 2 + name_len
                  IN  IF ~CanUnpack(d, sizeat, 4)
                      THEN [raised |-> "struct.error", entries |-> <<>>]
                      ELSE LET blob_size == U32(d, sizeat)
                               start     == sizeat + 4
                           IN  ParseLoop(d, start + blob_size,
                                   Append(acc, [name |-> name,
                                                blob |-> Slice(d, start, start + blob_size)]))

parse_pdhs(d) ==
    IF Slice(d, 0, 4) # PDHS_MAGIC
    THEN [raised |-> "ValueError", entries |-> <<>>]
    ELSE IF ~CanUnpack(d, 4, 4) \/ ~CanUnpack(d, 8, 4)
         THEN [raised |-> "struct.error", entries |-> <<>>]
         ELSE ParseLoop(d, 12, <<>>)

(***************************************************************************)
(* main, lines 121-173.                                                    *)
(***************************************************************************)
\* str(n) for n >= 0, as code points.
RECURSIVE Str(_)
Str(n) == IF n < 10 THEN <<48 + n>> ELSE Str(n \div 10) \o <<48 + (n % 10)>>

\* Line 131: entry_name.replace("/", "_").
Safe(name) == [i \in 1..Len(name) |-> IF name[i] = 47 THEN 95 ELSE name[i]]

\* Lines 140 and 153: f"{prefix}{safe}_{idx}.fxc".
FileName(prefix, safe, idx) == prefix \o safe \o <<95>> \o Str(idx) \o <<46, 102, 120, 99>>

PsPrefix == <<112, 115, 95>>
VsPrefix == <<118, 115, 95>>

\* Line 125: entries = parse_pdhs(data); lines 128: the totals start at 0.
Parse ==
    /\ mpc = "start"
    /\ LET res == parse_pdhs(data)
       IN  IF res.raised # "none"
           THEN /\ raised' = res.raised
                /\ mpc' = "raised"
                /\ UNCHANGED entries
           ELSE /\ entries' = res.entries
                /\ mpc' = "entries"
                /\ UNCHANGED raised
    /\ UNCHANGED <<data, ei, ps_idx, vs_idx, has_shaders, total_ps, total_vs,
                   total_skip, writes, rvars, fvars>>

\* Lines 130-135: the next entry; its indices start at 0 and its generator is
\* created.
NextEntry ==
    /\ mpc = "entries"
    /\ ei < Len(entries)
    /\ ei' = ei + 1
    /\ ps_idx' = 0
    /\ vs_idx' = 0
    /\ has_shaders' = FALSE
    /\ fblob' = entries[ei + 1].blob
    /\ p' = 0
    /\ cur' = <<>>
    /\ fpc' = "loop"
    /\ tested' = -1
    /\ yielded' = <<>>
    /\ mpc' = "frames"
    /\ UNCHANGED <<data, entries, raised, total_ps, total_vs, total_skip, writes, rvars>>

\* Lines 139-149 and 152-162: one shader sub-blob.  open() creates the file
\* before write() sees the buffer; write(None) raises TypeError.
WriteShader(prefix, idx, kind) ==
    LET sub   == cur.sub
        sh    == reconstruct_shader(sub)
        fname == FileName(prefix, Safe(entries[ei].name), idx)
    IN  /\ blob' = sub
        /\ shader' = sh
        /\ IF sh = AssertionError
           THEN /\ raised' = "AssertionError"
                /\ mpc' = "raised"
                /\ UNCHANGED <<writes, vdata, verdict, ps_idx, vs_idx, has_shaders,
                               total_ps, total_vs, fpc>>
           ELSE IF sh = None
           THEN /\ writes' = Append(writes, [fname |-> fname, content |-> <<>>,
                                              entry |-> ei, kind |-> kind, idx |-> idx])
                /\ raised' = "TypeError"
                /\ mpc' = "raised"
                /\ UNCHANGED <<vdata, verdict, ps_idx, vs_idx, has_shaders,
                               total_ps, total_vs, fpc>>
           ELSE /\ writes' = Append(writes, [fname |-> fname, content |-> sh,
                                              entry |-> ei, kind |-> kind, idx |-> idx])
                /\ vdata' = sh
                /\ verdict' = validate_shader(sh)
                /\ ps_idx' = IF kind = "ps" THEN ps_idx + 1 ELSE ps_idx
                /\ vs_idx' = IF kind = "vs" THEN vs_idx + 1 ELSE vs_idx
                /\ total_ps' = IF kind = "ps" THEN total_ps + 1 ELSE total_ps
                /\ total_vs' = IF kind = "vs" THEN total_vs + 1 ELSE total_vs
                /\ has_shaders' = TRUE
                /\ fpc' = "resume"
                /\ UNCHANGED <<raised, mpc>>
        /\ UNCHANGED total_skip

\* Lines 136-166: the body of the inner loop for the frame just yielded.
ProcessSub ==
    /\ mpc = "frames"
    /\ fpc = "yielded"
    /\ LET sub   == cur.sub
           magic == IF sub # <<>> THEN Slice(sub, 0, 4) ELSE <<>>
       IN  IF magic = PS_MAGIC THEN WriteShader(PsPrefix, ps_idx, "ps")
           ELSE IF magic = VS_MAGIC THEN WriteShader(VsPrefix, vs_idx, "vs")
           ELSE /\ total_skip' = total_skip + 1
                /\ fpc' = "resume"
                /\ UNCHANGED <<rvars, writes, raised, mpc, ps_idx, vs_idx,
                               has_shaders, total_ps, total_vs>>
    /\ UNCHANGED <<data, entries, ei, rpc, fblob, p, cur, tested, yielded>>

\* Lines 168-169: the entry's generator is exhausted.
EntryDone ==
    /\ mpc = "frames"
    /\ fpc = "done"
    /\ mpc' = "entries"
    /\ UNCHANGED <<data, entries, ei, raised, ps_idx, vs_idx, has_shaders,
                   total_ps, total_vs, total_skip, writes, rvars, fvars>>

\* Lines 171-173: no entry is left; the summary is printed.
Finish ==
    /\ mpc = "entries"
    /\ ei = Len(entries)
    /\ mpc' = "done"
    /\ UNCHANGED <<data, entries, ei, raised, ps_idx, vs_idx, has_shaders,
                   total_ps, total_vs, total_skip, writes, rvars, fvars>>

(***************************************************************************)
(* Containers given to main.                                               *)
(***************************************************************************)
MaxEntries == 2

\* u32 LE of a number below 256.
Le32(n) == <<n, 0, 0, 0>>

\* One sub-blob frame with its payload length declared as it is.
FrameOf(kind, sub) == Hdr(kind, Le32(Len(sub))) \o sub

Main0000 == <<77, 65, 73, 78, 48, 48, 48, 48>>
TailWord == <<84, 65, 73, 76>>

\* The spec's scenario: PS magic, 2 unused bytes, comment_len 2, 8 bytes of
\* CTAB, "MAIN0000", end token, "TAIL": 32 bytes.
ScenarioSub(unused, ctab) ==
    PS_MAGIC \o unused \o <<2, 0>> \o ctab \o Main0000 \o END_TOKEN \o TailWord

PlainCtab == <<67, 84, 65, 66, 28, 0, 0, 0>>

\* The scenario's entry payload with the payload length field it states (28)
\* and with the length of the bytes it lists (32).
ScenarioPayloads ==
    {Hdr(1, Le32(28)) \o ScenarioSub(<<254, 255>>, PlainCtab)}
    \cup {Hdr(1, Le32(32)) \o ScenarioSub(u, c) :
            u \in {<<254, 255>>, <<0, 0>>}, c \in {PlainCtab, END_TOKEN \o END_TOKEN}}

\* A canonical vertex shader, a vertex shader without end token, a split pixel
\* shader, a 4-byte sub-blob that is a bare pixel-shader magic, an effect blob.
VsCanonical == ReconHead(VS_MAGIC, 0) \o <<1, 2, 3, 4>> \o END_TOKEN
VsNoEnd     == ReconHead(VS_MAGIC, 0) \o <<1, 2, 3, 4>>
PsSplit     == ReconHead(PS_MAGIC, 0) \o <<1, 2>> \o END_TOKEN \o <<3>>
FxBlob      == <<7, 0, 0, 0, 1>>

\* Payloads of the entries of a container of several entries.
CorePayloads ==
    { Hdr(1, Le32(32)) \o ScenarioSub(<<254, 255>>, PlainCtab),
      FrameOf(2, FxBlob) \o <<0>>,
      FrameOf(1, PS_MAGIC) \o <<0>>,
      FrameOf(1, VsCanonical) \o <<0>> \o FrameOf(1, VsNoEnd) \o <<0>>,
      FrameOf(1, PsSplit) \o FrameOf(2, FxBlob) \o FrameOf(1, PsSplit)
          \o FrameOf(3, VsCanonical) \o <<0>> }

Payloads == ScenarioPayloads \cup CorePayloads \cup {<<>>}

Names == {<<97>>, <<47>>, <<95>>}

\* An entry record: u16 name_len, name, u32 blob_size, payload.
Rec(name, payload) == <<Len(name), 0>> \o name \o Le32(Len(payload)) \o payload

Records == {Rec(n, pl) : n \in Names, pl \in Payloads}

CoreRecords == {Rec(n, pl) : n \in Names, pl \in CorePayloads}

\* The 12-byte header: magic, version 1, entry count.
ContainerHeader(count) == PDHS_MAGIC \o Le32(1) \o Le32(count)

Whole ==
    {ContainerHeader(Len(rs)) \o Flatten(rs) : rs \in SeqsUpTo(CoreRecords, MaxEntries)}

\* What may follow the last record: nothing, a zero name length, a name length
\* above 128.
Trailers == {<<>>, <<0, 0, 9, 9, 9, 9, 9, 9>>, <<129, 0, 9, 9, 9, 9, 9, 9>>}

\* Every prefix of a container of at most one entry, and every such
\* container with a trailer.
Short == {ContainerHeader(Len(rs)) \o Flatten(rs) : rs \in SeqsUpTo(Records, 1)}

Containers ==
    Whole
    \cup {c \o t : c \in Short, t \in Trailers}
    \cup {Slice(c, 0, k) : c \in Short, k \in 0..39}
    \cup {<<88, 88, 88, 88>> \o Le32(1) \o Le32(0)}

Init ==
    /\ RIdle
    /\ FIdle
    /\ data \in Containers
    /\ entries = <<>>
    /\ ei = 0
    /\ mpc = "start"
    /\ raised = "none"
    /\ ps_idx = 0
    /\ vs_idx = 0
    /\ has_shaders = FALSE
    /\ total_ps = 0
    /\ total_vs = 0
    /\ total_skip = 0
    /\ writes = <<>>

Next ==
    \/ Parse
    \/ NextEntry
    \/ (mpc = "frames" /\ FrameExit /\ UNCHANGED <<rvars, mvars>>)
    \/ (mpc = "frames" /\ FrameSkip /\ UNCHANGED <<rvars, mvars>>)
    \/ (mpc = "frames" /\ FrameYield /\ UNCHANGED <<rvars, mvars>>)
    \/ (mpc = "frames" /\ FrameResume /\ UNCHANGED <<rvars, mvars>>)
    \/ ProcessSub
    \/ EntryDone
    \/ Finish

Spec == Init /\ [][Next]_vars

(***************************************************************************)
(* Properties of the reconstructor and the validator (SpecRecon).          *)
(***************************************************************************)
\* The first 4 bytes are 00 03 FF FF or 00 03 FE FF.
HasShaderMagic(b) ==
    Len(b) >= 4 /\ b[1] = 0 /\ b[2] = 3 /\ b[3] \in {254, 255} /\ b[4] = 255

\* The last 4 bytes are FF FF 00 00.
EndsWithEndToken(b) ==
    /\ Len(b) >= 4
    /\ b[Len(b) - 3] = 255 /\ b[Len(b) - 2] = 255
    /\ b[Len(b) - 1] = 0 /\ b[Len(b)] = 0

\* A buffer reconstruct_shader does not decline.
Accepted(b) == Len(b) >= 8 /\ HasShaderMagic(b)

\* 8 + N*4 with N the u16 LE at offset 6.
HeaderEndOf(b) == 8 + 4 * (b[7] + 256 * b[8])

\* C1: for every buffer of length >= 8 with a shader magic, reconstructing the
\* reconstructor's output again gives that output back byte for byte.
C1_Idempotent ==
    (rpc = "reconstructed" /\ Accepted(blob))
        => reconstruct_shader(shader) = shader

\* C2: for every accepted input the returned buffer has the input's length, and
\* the size assertion of the reorder branch does not fail.
C2_LengthConserved ==
    (rpc = "reconstructed" /\ Accepted(blob))
        => /\ shader # AssertionError
           /\ shader # None
           /\ Len(shader) = Len(blob)

\* C2 witness: an accepted input whose regions were reordered.
C2_Witness ==
    /\ rpc = "reconstructed"
    /\ Accepted(blob)
    /\ shader # blob
    /\ Len(shader) = Len(blob)

\* C3 as stated: a short buffer, a buffer with an unrecognized magic and a
\* buffer whose header_end is at or after its end all come back unchanged.
C3_DeclinedPassThrough ==
    (/\ rpc = "reconstructed"
     /\ \/ Len(blob) < 8
        \/ ~HasShaderMagic(blob)
        \/ HeaderEndOf(blob) >= Len(blob))
        => shader = blob

\* C3 amended: a buffer shorter than 8 bytes or with an unrecognized magic is
\* declined with None; an accepted buffer whose header_end is at or after its
\* end comes back unchanged.
C3_DeclinedNoneOrPassThrough ==
    rpc = "reconstructed" =>
        /\ (Len(blob) < 8 \/ ~HasShaderMagic(blob)) => shader = None
        /\ (Accepted(blob) /\ HeaderEndOf(blob) >= Len(blob)) => shader = blob

\* C3 witness: a buffer of 8 bytes or more with an unrecognized magic, declined.
C3_Witness ==
    /\ rpc = "reconstructed"
    /\ Len(blob) >= 8
    /\ ~HasShaderMagic(blob)
    /\ shader = None

\* C6: the verdict is False exactly when the buffer is shorter than 8 bytes, or
\* starts with no shader magic, or does not end with the end token; a False
\* verdict prints exactly one diagnostic and a True verdict none; the buffer
\* validated is left as it was.
C6_ValidatorCorrect ==
    rpc = "validated" =>
        /\ verdict.ok = FALSE <=>
              (Len(vdata) < 8 \/ ~HasShaderMagic(vdata) \/ ~EndsWithEndToken(vdata))
        /\ Len(verdict.printed) = (IF verdict.ok THEN 0 ELSE 1)
        /\ vdata \in {blob, shader}

\* C6 witness: a vertex shader of more than 8 bytes that passes all checks.
C6_Witness ==
    /\ rpc = "validated"
    /\ verdict.ok
    /\ Len(vdata) > 8
    /\ vdata[3] = 254

(***************************************************************************)
(* Properties of the framer (SpecFramer).                                  *)
(***************************************************************************)
\* The u32 LE at offset off of fblob.
FieldAt(off) ==
    fblob[off + 1] + 256 * fblob[off + 2] + 65536 * fblob[off + 3]
        + 16777216 * fblob[off + 4]

\* The 4 bytes at offset off of fblob are FF FF FF FF.
SepAt(off) ==
    /\ off + 4 <= Len(fblob)
    /\ \A k \in 1..4 : fblob[off + k] = 255

\* C7: iter_sep_blobs never fails, every completed loop step leaves the cursor
\* strictly larger, no separator test is made at a cursor >= length - 16, and
\* the generator terminates.
C7_FramingTerminates ==
    /\ [](fpc # "raised")
    /\ [][fpc' = "loop" => p' > p]_vars
    /\ [](tested # -1 => tested < Len(fblob) - 16)
    /\ <>(fpc = "done")

\* C7 witness: the generator finished after a frame whose declared length is 0
\* and a frame whose declared length is larger than the bytes that remain.
C7_Witness ==
    /\ fpc = "done"
    /\ Len(yielded) = 2
    /\ FieldAt(yielded[1].off + 12) = 0
    /\ yielded[2].end > Len(fblob)

\* The part of C10 shared by the claim and its amendment: every yielded frame
\* starts at a separator, carries the kind of offset+4, starts at or after the
\* declared end of the frame before it, and the cursor never falls behind.
FramesInOrder ==
    \A i \in 1..Len(yielded) :
        LET y == yielded[i]
        IN  /\ SepAt(y.off)
            /\ y.kind = FieldAt(y.off + 4)
            /\ \A k \in 1..Len(y.sub) : y.sub[k] = fblob[y.off + 16 + k]
            /\ i > 1 =>
                 y.off >= yielded[i - 1].off + 16 + FieldAt(yielded[i - 1].off + 12)
            /\ i = Len(yielded) =>
                 \/ p = y.off /\ fpc \in {"yielded", "resume"}
                 \/ p >= y.off + 16 + FieldAt(y.off + 12) /\ fpc \in {"loop", "done"}

\* C10 as stated: every yielded payload is exactly the payload_len bytes that
\* start at offset+16, and frames are in order and do not overlap.
C10_FrameSlicing ==
    /\ FramesInOrder
    /\ \A i \in 1..Len(yielded) :
           Len(yielded[i].sub) = FieldAt(yielded[i].off + 12)

\* C10 amended: every yielded payload is the bytes from offset+16 up to
\* offset+16+payload_len or the end of the buffer, whichever comes first, and
\* the cursor moves to offset+16+payload_len; frames are in order and do not
\* overlap.
C10_FrameSlicingClamped ==
    /\ FramesInOrder
    /\ \A i \in 1..Len(yielded) :
           LET y == yielded[i]
               declared == FieldAt(y.off + 12)
               left == Len(fblob) - (y.off + 16)
           IN  Len(y.sub) = (IF declared < left THEN declared ELSE left)

\* C10 witness: two frames were yielded, the first with a payload that is a
\* separator, the second cut short by the end of the buffer, and the
\* generator finished.
C10_Witness ==
    /\ Len(yielded) = 2
    /\ yielded[1].sub = <<255, 255, 255, 255>>
    /\ yielded[2].sub # <<>>
    /\ Len(yielded[2].sub) < FieldAt(yielded[2].off + 12)
    /\ fpc = "done"

(***************************************************************************)
(* Properties of the whole run (Spec).                                     *)
(***************************************************************************)
\* The first 4 bytes of d are "PDHS".
StartsWithPDHS(d) ==
    Len(d) >= 4 /\ d[1] = 80 /\ d[2] = 68 /\ d[3] = 72 /\ d[4] = 83

\* C4: a run on a buffer that starts with "PDHS" never ends in an exception.
C4_RunCompletes == StartsWithPDHS(data) => mpc # "raised"

\* The u16 LE and the u32 LE at offset off of data, 0 past the end.
NameLenAt(off) ==
    IF off + 2 <= Len(data) THEN data[off + 1] + 256 * data[off + 2] ELSE 0

SizeAt(off) ==
    IF off + 4 <= Len(data)
    THEN data[off + 1] + 256 * data[off + 2] + 65536 * data[off + 3]
             + 16777216 * data[off + 4]
    ELSE 0

\* The offset of the i-th entry record, the first at 12.
RECURSIVE RecordAt(_)
RecordAt(i) ==
    IF i = 1 THEN 12
    ELSE LET q == RecordAt(i - 1)
         IN  q + 2 + NameLenAt(q) + 4 + SizeAt(q + 2 + NameLenAt(q))

\* parse_pdhs raised: the run ended before any entry was taken, or never
\* left the parser.
ParserFailed == mpc = "raised" /\ ei = 0

\* C5: on a buffer that starts with "PDHS" parse_pdhs does not fail, and what
\* it returns is, in order, the records that precede the point where the name
\* length is 0 or above 128 or where 6 bytes or fewer remain.
C5_SoftTruncation ==
    (mpc # "start" /\ StartsWithPDHS(data)) =>
        /\ ~ParserFailed
        /\ \A i \in 1..Len(entries) :
               LET q == RecordAt(i)
                   n == NameLenAt(q)
               IN  /\ n \in 1..128
                   /\ Len(entries[i].name) = Min(n, Len(data) - (q + 2))
                   /\ entries[i].blob =
                          Slice(data, q + 2 + n + 4, q + 2 + n + 4 + SizeAt(q + 2 + n))
        /\ LET q == RecordAt(Len(entries) + 1)
           IN  q >= Len(data) - 6 \/ NameLenAt(q) = 0 \/ NameLenAt(q) > 128

\* The entry payload of the spec's scenario with payload length field n:
\* separator, kind 1, reserved 0, n, then PS magic, 2 bytes, comment_len 2,
\* 8 bytes, "MAIN0000", end token, "TAIL".
IsScenarioPayload(b, n) ==
    /\ Len(b) = 48
    /\ SubSeq(b, 1, 16) = <<255, 255, 255, 255, 1, 0, 0, 0, 0, 0, 0, 0, n, 0, 0, 0>>
    /\ SubSeq(b, 17, 20) = <<0, 3, 255, 255>>
    /\ SubSeq(b, 23, 24) = <<2, 0>>
    /\ SubSeq(b, 33, 48) =
           <<77, 65, 73, 78, 48, 48, 48, 48, 255, 255, 0, 0, 84, 65, 73, 76>>

\* What the scenario says is written: the 16 header bytes, "TAIL", "MAIN0000",
\* the end token.
ScenarioExpected(b) ==
    SubSeq(b, 17, 32) \o <<84, 65, 73, 76>> \o <<77, 65, 73, 78, 48, 48, 48, 48>>
        \o <<255, 255, 0, 0>>

\* The scenario's payload was framed and its sub-blob handled.
ScenarioHandled(n) == IsScenarioPayload(fblob, n) /\ fpc \in {"resume", "done"}

\* C8 as stated: with payload length field 28 the shader written for the
\* scenario's payload is header, TAIL, MAIN0000, end token, and the shader
\* region keeps its length of 28 bytes.
C8_Scenario ==
    ScenarioHandled(28) =>
        /\ writes # <<>>
        /\ writes[Len(writes)].content = ScenarioExpected(fblob)
        /\ Len(yielded[1].sub) = 28
        /\ Len(writes[Len(writes)].content) = 28

\* C8 amended: the listed shader region is 32 bytes.  With payload length
\* field 32 the framer yields it once, whole, and the shader written is
\* header, TAIL, MAIN0000, end token, 32 bytes as before; with payload length
\* field 28 the framer yields the first 28 bytes, which end at the end token,
\* and they are written unchanged.
C8_ScenarioByLength ==
    /\ ScenarioHandled(32) =>
        /\ Len(yielded) = 1
        /\ yielded[1].kind = 1
        /\ yielded[1].sub = SubSeq(fblob, 17, 48)
        /\ writes # <<>>
        /\ writes[Len(writes)].content = ScenarioExpected(fblob)
        /\ Len(writes[Len(writes)].content) = 32
    /\ ScenarioHandled(28) =>
        /\ Len(yielded) = 1
        /\ yielded[1].kind = 1
        /\ yielded[1].sub = SubSeq(fblob, 17, 44)
        /\ writes # <<>>
        /\ writes[Len(writes)].content = SubSeq(fblob, 17, 44)

\* C8 witness: the scenario's payload of declared length 32 was framed to its
\* end and its shader written reordered.
C8_Witness ==
    /\ IsScenarioPayload(fblob, 32)
    /\ fpc = "done"
    /\ writes # <<>>
    /\ writes[Len(writes)].content = ScenarioExpected(fblob)
    /\ writes[Len(writes)].content # yielded[1].sub

\* The file name main gives the k-th shader of the run: the kind's prefix, the
\* entry name with "/" replaced by "_", "_", the number of earlier shaders of
\* the same kind of the same entry, ".fxc".
ExpectedName(k) ==
    LET w == writes[k]
        i == Cardinality({j \in 1..(k - 1) :
                 writes[j].entry = w.entry /\ writes[j].kind = w.kind})
    IN  FileName(IF w.kind = "ps" THEN PsPrefix ELSE VsPrefix,
                 Safe(entries[w.entry].name), i)

\* C9: every shader of a finished run was written under its expected name, no
\* two under the same name, so the files written number total_ps + total_vs.
C9_OneFilePerShader ==
    mpc = "done" =>
        /\ \A k \in 1..Len(writes) : writes[k].fname = ExpectedName(k)
        /\ \A j, k \in 1..Len(writes) : j # k => writes[j].fname # writes[k].fname
        /\ Cardinality({writes[k].fname : k \in 1..Len(writes)}) = total_ps + total_vs

====
